---- MODULE Spec2Model ----
(***************************************************************************)
(* A model of the meeting signalling core: WebRTCManager                   *)
(* (src/src/utils/webrtc.ts) and the participant roster the Meeting page   *)
(* builds from its callbacks (src/unnamed/part_002); the message list of   *)
(* MeetingChat (src/unnamed/part_003); and the sign-up of the Auth page    *)
(* (src/unnamed/part_002) against the profiles table.                      *)
(*                                                                         *)
(* One WebRTCManager runs per session.  The relay channel (presence and    *)
(* broadcast) and the browser's RTCPeerConnection are the environment: the *)
(* relay delivers presence and broadcast events, a transport completes the *)
(* operation at the head of its operations chain.  Every handler of the    *)
(* code is one action, run to its next await; every await of a transport   *)
(* operation is an entry of that transport's chain.                        *)
(***************************************************************************)
EXTENDS Integers, Sequences, FiniteSets, TLC

\* The user ids of the meeting, and those whose session is modelled.
Users == {"A", "B", "C"}
Sessions == {"A", "B"}

\* Bounds of the model.
MaxPc == 2        \* RTCPeerConnections one session creates
MaxPending == 2   \* transport operations one session awaits at a time
MaxCleanups == 1  \* cleanup() calls of one session running at a time
MaxReports == 2   \* onParticipantJoined calls counted for one participant
MaxMsgs == 3      \* rows inserted into chat_messages

VARIABLES
  phase,          \* position of initialize(): "new", "media", "failed", "ready"
  localStream,    \* this.localStream: "null", "live", "stopped"
  audioOn,        \* enabled flag of the local audio tracks
  videoOn,        \* enabled flag of the local video tracks
  chan,           \* this.channel: "none", "joining", "joined", "removed"
  tracked,        \* channel.track(): "no", "pending", "yes", "untracked"
  presenceState,  \* the presences the relay has reported to the channel
  peers,          \* this.peers: user id -> index into pcs, 0 for no entry
  pcs,            \* every RTCPeerConnection the session created, in order
  roster,         \* Meeting's participants map: "absent", "joined", "stream"
  cleaning,       \* how many cleanup() calls are suspended at each await
  net,            \* broadcast messages sent and not yet taken by their addressee
  suspended,      \* the transports a handler was awaiting when cleanup() last ran
  reported,       \* how often onParticipantJoined was called for each user
  mounted,        \* the Meeting page that owns the session is mounted
  chat_messages,  \* the ids of the rows of public.chat_messages of the meeting
  messages,       \* MeetingChat's messages state: the ids displayed, in order
  loadPos,        \* position of loadMessages(): "idle", "query", "profiles", "done"
  data,           \* the rows the select of loadMessages() returned
  subscribed,     \* the chat channel's subscription is active on the server
  notifications,  \* INSERT notifications whose handler has not yet set the state
  authUsers,      \* the ids of the rows of auth.users
  profiles,       \* the rows of public.profiles
  signup          \* position and form values of handleSignup()

\* The state of the pages beside the meeting session.
pages == <<chat_messages, messages, loadPos, data, subscribed, notifications,
           authUsers, profiles, signup>>

vars == <<phase, localStream, audioOn, videoOn, chan, tracked, presenceState,
          peers, pcs, roster, cleaning, net, suspended, reported, mounted,
          pages>>

Kinds == {"offer", "answer", "ice-candidate"}

\* A broadcast message: its event and the from/to of its payload.
Msg(kind, from, to) == [kind |-> kind, from |-> from, to |-> to]

Messages == {Msg(k, f, t) : k \in Kinds, f \in Users, t \in Users}

\* An awaited transport operation and the handler suspended at it.
Op(fn, op) == [fn |-> fn, op |-> op]

\* new RTCPeerConnection(ICE_SERVERS), with the operation the caller awaits first.
NewPc(remote, isInitiator, chain) ==
  [remote |-> remote, init |-> isInitiator, sig |-> "stable",
   local |-> "none", rdesc |-> "none", closed |-> FALSE, chain |-> chain,
   offered |-> FALSE]

\* The negotiation state of a PeerLink, read off its transport.
LinkState(pc) ==
  IF pc.closed THEN "Closed"
  ELSE IF pc.sig = "have-local-offer" THEN "HaveLocalOffer"
  ELSE IF pc.sig = "have-remote-offer" THEN "HaveRemoteOffer"
  ELSE IF pc.local = "none" /\ pc.rdesc = "none" THEN "New"
  ELSE "Stable"

Init ==
  /\ phase = [s \in Sessions |-> "new"]
  /\ localStream = [s \in Sessions |-> "null"]
  /\ audioOn = [s \in Sessions |-> TRUE]
  /\ videoOn = [s \in Sessions |-> TRUE]
  /\ chan = [s \in Sessions |-> "none"]
  /\ tracked = [s \in Sessions |-> "no"]
  /\ presenceState = [s \in Sessions |-> {}]
  /\ peers = [s \in Sessions |-> [u \in Users |-> 0]]
  /\ pcs = [s \in Sessions |-> <<>>]
  /\ roster = [s \in Sessions |-> [u \in Users |-> "absent"]]
  /\ cleaning = [s \in Sessions |-> [untrack |-> 0, removeChannel |-> 0]]
  /\ net = {}
  /\ suspended = [s \in Sessions |-> {}]
  /\ reported = [s \in Sessions |-> [u \in Users |-> 0]]
  /\ mounted = [s \in Sessions |-> TRUE]
  /\ chat_messages = {}
  /\ messages = <<>>
  /\ loadPos = "idle"
  /\ data = {}
  /\ subscribed = FALSE
  /\ notifications = {}
  /\ authUsers = {}
  /\ profiles = {}
  /\ signup = [pos |-> "idle", email |-> "none", registerNumber |-> "none",
               phoneNumber |-> "none", user |-> "none"]

(***************************************************************************)
(* The transport: RTCPeerConnection as the code uses it.                   *)
(***************************************************************************)

\* pc.close().  The operations still pending on a closed transport never
\* settle, so the handlers awaiting them never resume.
ClosePc(pc) == [pc EXCEPT !.closed = TRUE, !.chain = <<>>]

\* The outcomes of the operation o on transport pc: whether its promise is
\* fulfilled, and the transport afterwards.  An offer applied while a local
\* offer is pending is either rejected or rolls the local offer back,
\* depending on the browser.
Outcomes(pc, o) ==
  LET ok(q) == [ok |-> TRUE, pc |-> q]
      fail == [ok |-> FALSE, pc |-> pc]
  IN CASE o = Op("createPeerConnection", "createOffer") ->
            IF pc.sig \in {"stable", "have-local-offer"} THEN {ok(pc)} ELSE {fail}
       [] o = Op("createPeerConnection", "setLocalDescription") ->
            IF pc.sig \in {"stable", "have-local-offer"}
            THEN {ok([pc EXCEPT !.sig = "have-local-offer", !.local = "offer"])}
            ELSE {fail}
       [] o = Op("handleOffer", "setRemoteDescription") ->
            LET applied == [pc EXCEPT !.sig = "have-remote-offer",
                                      !.rdesc = "offer"]
            IN IF pc.sig = "have-local-offer"
               THEN {ok([applied EXCEPT !.local = "none"]), fail}
               ELSE {ok(applied)}
       [] o = Op("handleOffer", "createAnswer") ->
            IF pc.sig = "have-remote-offer" THEN {ok(pc)} ELSE {fail}
       [] o = Op("handleOffer", "setLocalDescription") ->
            IF pc.sig = "have-remote-offer"
            THEN {ok([pc EXCEPT !.sig = "stable", !.local = "answer"])}
            ELSE {fail}
       [] o = Op("handleAnswer", "setRemoteDescription") ->
            IF pc.sig = "have-local-offer"
            THEN {ok([pc EXCEPT !.sig = "stable", !.rdesc = "answer"])}
            ELSE {fail}
       [] o = Op("handleIceCandidate", "addIceCandidate") ->
            IF pc.rdesc # "none" THEN {ok(pc)} ELSE {fail}

(***************************************************************************)
(* WebRTCManager and the callbacks Meeting gives it.                       *)
(***************************************************************************)

\* createPeerConnection up to its first await: the transport is created and
\* stored under the remote user id; an initiator then awaits createOffer().
createPeerConnection(s, remoteUserId, isInitiator) ==
  [pcs |-> Append(pcs[s],
                  NewPc(remoteUserId, isInitiator,
                        IF isInitiator
                        THEN <<Op("createPeerConnection", "createOffer")>>
                        ELSE <<>>)),
   peers |-> [peers[s] EXCEPT ![remoteUserId] = Len(pcs[s]) + 1]]

\* removePeer that closes the transport and leaves its entry in peers.
removePeerKeepingEntry(s, userId) ==
  IF peers[s][userId] # 0
  THEN [pcs |-> [pcs[s] EXCEPT ![peers[s][userId]] = ClosePc(@)],
        peers |-> peers[s]]
  ELSE [pcs |-> pcs[s], peers |-> peers[s]]

\* removePeer that deletes the entry and leaves the transport open.
removePeerWithoutClose(s, userId) ==
  [pcs |-> pcs[s], peers |-> [peers[s] EXCEPT ![userId] = 0]]

\* removePeer that closes every open transport created for userId, stored
\* or not.
removePeerByRemote(s, userId) ==
  [pcs |-> [p \in 1..Len(pcs[s]) |->
              IF pcs[s][p].remote = userId /\ ~pcs[s][p].closed
              THEN ClosePc(pcs[s][p]) ELSE pcs[s][p]],
   peers |-> [peers[s] EXCEPT ![userId] = 0]]

\* removePeer that closes every stored transport and clears peers.
removePeerClosingAll(s, userId) ==
  [pcs |-> [p \in 1..Len(pcs[s]) |->
              IF \E u \in Users : peers[s][u] = p
              THEN ClosePc(pcs[s][p]) ELSE pcs[s][p]],
   peers |-> [u \in Users |-> 0]]

\* removePeer: close the transport stored for userId, if any, and forget it.
removePeer(s, userId) ==
  IF peers[s][userId] # 0
  THEN [pcs |-> [pcs[s] EXCEPT ![peers[s][userId]] = ClosePc(@)],
        peers |-> [peers[s] EXCEPT ![userId] = 0]]
  ELSE [pcs |-> pcs[s], peers |-> peers[s]]

\* Meeting's callbacks on the participants map.
onParticipantJoined(r, userId) == [r EXCEPT ![userId] = "joined"]

onParticipantLeft(r, userId) == [r EXCEPT ![userId] = "absent"]

onStreamAdded(r, userId) ==
  IF r[userId] # "absent" THEN [r EXCEPT ![userId] = "stream"] ELSE r

\* The users the presence sync handler reports on the snapshot state.
SyncReports(s, state) == {u \in state : u # s /\ peers[s][u] = 0}

\* The presence sync handler on the snapshot state: every user in it who is
\* not this user and has no entry in peers is reported as joined.
OnSync(s, state) ==
  [u \in Users |->
     IF u \in state /\ u # s /\ peers[s][u] = 0
     THEN onParticipantJoined(roster[s], u)[u]
     ELSE roster[s][u]]

\* The join handler creating the transport without initiating.
OnJoinAsResponder(s, userId) ==
  IF userId # s
  THEN createPeerConnection(s, userId, FALSE)
  ELSE [pcs |-> pcs[s], peers |-> peers[s]]

\* The join handler without its test for the user's own presence.
OnJoinOfAnyone(s, userId) == createPeerConnection(s, userId, TRUE)

\* The presence join handler for one new presence: a transport is created
\* as initiator unless the presence is this user's own.
OnJoin(s, userId) ==
  IF userId # s
  THEN createPeerConnection(s, userId, TRUE)
  ELSE [pcs |-> pcs[s], peers |-> peers[s]]

\* channel.send(...): the message is handed to the relay, which holds it for
\* the session it is addressed to; a user without a modelled session takes
\* its messages at once.
Send(msgs) == net' = net \cup {m \in msgs : m.to \in Sessions}

\* The handlers' events are delivered while the channel is joined.
Listening(s) == chan[s] = "joined"

\* The operations the handlers of s are suspended at.
RECURSIVE Pending(_, _)
Pending(s, n) == IF n = 0 THEN 0 ELSE Len(pcs[s][n].chain) + Pending(s, n - 1)

\* The caps of the model on creating a transport and on awaiting one more
\* operation.
RoomForPc(s) == Len(pcs[s]) < MaxPc

RoomForOp(s) == Pending(s, Len(pcs[s])) < MaxPending

\* What the handling of m needs of them.
Room(s, m) ==
  IF peers[s][m.from] = 0
  THEN m.kind = "offer" => RoomForPc(s) /\ RoomForOp(s)
  ELSE RoomForOp(s)

\* initialize() is called and awaits getUserMedia().
Initialize(s) ==
  /\ phase[s] = "new"
  /\ phase' = [phase EXCEPT ![s] = "media"]
  /\ UNCHANGED <<localStream, audioOn, videoOn, chan, tracked,
                 peers, pcs, roster, cleaning, net>>

\* getUserMedia() resolves: the channel is created, the handlers are
\* registered, subscribe() is called and initialize() returns the stream.
MediaGranted(s) ==
  /\ phase[s] = "media"
  /\ phase' = [phase EXCEPT ![s] = "ready"]
  /\ localStream' = [localStream EXCEPT ![s] = "live"]
  /\ chan' = [chan EXCEPT ![s] = "joining"]
  /\ UNCHANGED <<audioOn, videoOn, tracked, peers, pcs, roster,
                 cleaning, net>>

\* initialize() that catches the rejection of getUserMedia() and goes on to
\* create and subscribe the channel.
MediaDeniedCaught(s) ==
  /\ phase[s] = "media"
  /\ phase' = [phase EXCEPT ![s] = "failed"]
  /\ chan' = [chan EXCEPT ![s] = "joining"]
  /\ UNCHANGED <<localStream, audioOn, videoOn, tracked,
                 peers, pcs, roster, cleaning, net>>

\* getUserMedia() rejects: initialize() rejects before any channel exists.
MediaDenied(s) ==
  /\ phase[s] = "media"
  /\ phase' = [phase EXCEPT ![s] = "failed"]
  /\ UNCHANGED <<localStream, audioOn, videoOn, chan, tracked,
                 peers, pcs, roster, cleaning, net>>

\* The channel is joined: the subscribe callback runs with SUBSCRIBED and
\* calls track(); the first presence snapshot arrives and the sync handler
\* runs on it.
Subscribed(s, state) ==
  /\ chan[s] = "joining"
  /\ chan' = [chan EXCEPT ![s] = "joined"]
  /\ tracked' = [tracked EXCEPT ![s] = IF @ = "no" THEN "pending" ELSE @]
  /\ roster' = [roster EXCEPT ![s] = OnSync(s, state)]
  /\ UNCHANGED <<phase, localStream, audioOn, videoOn, peers, pcs, cleaning,
                 net>>

\* The relay records the presence announced by track().
TrackDone(s) ==
  /\ tracked[s] = "pending"
  /\ tracked' = [tracked EXCEPT ![s] = "yes"]
  /\ UNCHANGED <<phase, localStream, audioOn, videoOn, chan,
                 peers, pcs, roster, cleaning, net>>

\* A presence sync event: the sync handler runs on the presence state.
PresenceSync(s, state) ==
  /\ Listening(s)
  /\ roster' = [roster EXCEPT ![s] = OnSync(s, state)]
  /\ UNCHANGED <<phase, localStream, audioOn, videoOn, chan, tracked, peers,
                 pcs, cleaning, net>>

\* A presence join event with one new presence.
PresenceJoin(s, userId) ==
  /\ Listening(s)
  /\ userId # s => RoomForPc(s) /\ RoomForOp(s)
  /\ LET c == OnJoin(s, userId)
     IN /\ pcs' = [pcs EXCEPT ![s] = c.pcs]
        /\ peers' = [peers EXCEPT ![s] = c.peers]
  /\ UNCHANGED <<phase, localStream, audioOn, videoOn, chan, tracked, roster,
                 cleaning, net>>

\* A presence leave event with one left presence.
PresenceLeave(s, userId) ==
  /\ Listening(s)
  /\ LET c == removePeer(s, userId)
     IN /\ pcs' = [pcs EXCEPT ![s] = c.pcs]
        /\ peers' = [peers EXCEPT ![s] = c.peers]
  /\ roster' = [roster EXCEPT ![s] = onParticipantLeft(@, userId)]
  /\ UNCHANGED <<phase, localStream, audioOn, videoOn, chan, tracked,
                 cleaning, net>>

\* The broadcast handlers without their test of payload.to.
AddressedOrNot(s, m) == TRUE

\* The test every broadcast handler applies to a payload before handling it.
Addressed(s, m) == m.to = s

\* handleOffer up to its first await: the transport stored for the sender is
\* used, or one is created as responder; setRemoteDescription is awaited.
handleOffer(s, remoteUserId) ==
  LET c == IF peers[s][remoteUserId] = 0
           THEN createPeerConnection(s, remoteUserId, FALSE)
           ELSE [pcs |-> pcs[s], peers |-> peers[s]]
      p == c.peers[remoteUserId]
  IN [pcs |-> [c.pcs EXCEPT ![p].chain =
                 Append(@, Op("handleOffer", "setRemoteDescription"))],
      peers |-> c.peers]

\* handleAnswer that never applies the answer.
handleAnswerDropped(s, remoteUserId) == [pcs |-> pcs[s], peers |-> peers[s]]

\* handleAnswer up to its await: without a stored transport it does nothing.
handleAnswer(s, remoteUserId) ==
  LET p == peers[s][remoteUserId]
  IN [pcs |-> IF p # 0
              THEN [pcs[s] EXCEPT ![p].chain =
                      Append(@, Op("handleAnswer", "setRemoteDescription"))]
              ELSE pcs[s],
      peers |-> peers[s]]

\* handleIceCandidate up to its await: without a stored transport the
\* candidate is discarded.
handleIceCandidate(s, remoteUserId) ==
  LET p == peers[s][remoteUserId]
  IN [pcs |-> IF p # 0
              THEN [pcs[s] EXCEPT ![p].chain =
                      Append(@, Op("handleIceCandidate", "addIceCandidate"))]
              ELSE pcs[s],
      peers |-> peers[s]]

\* The three broadcast handlers on a message m the channel hands to s.
OnBroadcast(s, m) ==
  IF Addressed(s, m)
  THEN CASE m.kind = "offer" -> handleOffer(s, m.from)
         [] m.kind = "answer" -> handleAnswer(s, m.from)
         [] m.kind = "ice-candidate" -> handleIceCandidate(s, m.from)
  ELSE [pcs |-> pcs[s], peers |-> peers[s]]

\* The relay delivers a message in flight to s; the session it is addressed
\* to takes it off the relay.
Deliver(s, m) ==
  /\ Listening(s)
  /\ m \in net
  /\ m.from # s
  /\ Addressed(s, m) => Room(s, m)
  /\ LET c == OnBroadcast(s, m)
     IN /\ pcs' = [pcs EXCEPT ![s] = c.pcs]
        /\ peers' = [peers EXCEPT ![s] = c.peers]
  /\ net' = IF m.to = s THEN net \ {m} ELSE net
  /\ UNCHANGED <<phase, localStream, audioOn, videoOn, chan, tracked, roster,
                 cleaning>>

\* The relay delivers a message sent by a user whose session is not modelled.
RemoteBroadcast(s, m) ==
  /\ Listening(s)
  /\ m.from # s
  /\ Addressed(s, m) => Room(s, m)
  /\ LET c == OnBroadcast(s, m)
     IN /\ pcs' = [pcs EXCEPT ![s] = c.pcs]
        /\ peers' = [peers EXCEPT ![s] = c.peers]
  /\ UNCHANGED <<phase, localStream, audioOn, videoOn, chan, tracked,
                 roster, cleaning, net>>

\* handleOffer sending its answer as soon as createAnswer() has resolved,
\* before the answer is applied.
ContinueSendingEarly(s, pc, o) ==
  CASE o = Op("createPeerConnection", "createOffer") ->
         [next |-> <<Op("createPeerConnection", "setLocalDescription")>>,
          send |-> {}]
    [] o = Op("createPeerConnection", "setLocalDescription") ->
         [next |-> <<>>, send |-> {Msg("offer", s, pc.remote)}]
    [] o = Op("handleOffer", "setRemoteDescription") ->
         [next |-> <<Op("handleOffer", "createAnswer")>>, send |-> {}]
    [] o = Op("handleOffer", "createAnswer") ->
         [next |-> <<Op("handleOffer", "setLocalDescription")>>,
          send |-> {Msg("answer", s, pc.remote)}]
    [] OTHER -> [next |-> <<>>, send |-> {}]

\* What the handler suspended at operation o does when o is fulfilled: the
\* next operation it awaits, and the message it sends.
Continue(s, pc, o) ==
  CASE o = Op("createPeerConnection", "createOffer") ->
         [next |-> <<Op("createPeerConnection", "setLocalDescription")>>,
          send |-> {}]
    [] o = Op("createPeerConnection", "setLocalDescription") ->
         [next |-> <<>>, send |-> {Msg("offer", s, pc.remote)}]
    [] o = Op("handleOffer", "setRemoteDescription") ->
         [next |-> <<Op("handleOffer", "createAnswer")>>, send |-> {}]
    [] o = Op("handleOffer", "createAnswer") ->
         [next |-> <<Op("handleOffer", "setLocalDescription")>>, send |-> {}]
    [] o = Op("handleOffer", "setLocalDescription") ->
         [next |-> <<>>, send |-> {Msg("answer", s, pc.remote)}]
    [] OTHER -> [next |-> <<>>, send |-> {}]

\* The operation at the head of transport p's chain is fulfilled: the
\* transport changes, ontrack is raised for a first remote description, and
\* the handler resumes up to its next await.
OpFulfilled(s, p) ==
  /\ p \in 1..Len(pcs[s])
  /\ ~pcs[s][p].closed
  /\ pcs[s][p].chain # <<>>
  /\ LET pc == pcs[s][p]
         o == Head(pc.chain)
         k == Continue(s, pc, o)
     IN \E r \in Outcomes(pc, o) :
          /\ r.ok
          /\ pcs' = [pcs EXCEPT ![s][p] =
                       [r.pc EXCEPT !.chain = Tail(pc.chain) \o k.next,
                                    !.offered = @ \/ (\E m \in k.send : m.kind = "offer")]]
          /\ roster' = [roster EXCEPT ![s] =
                          IF r.pc.rdesc # "none" /\ pc.rdesc = "none"
                          THEN onStreamAdded(@, pc.remote) ELSE @]
          /\ Send(k.send)
  /\ UNCHANGED <<phase, localStream, audioOn, videoOn, chan, tracked,
                 peers, cleaning>>

\* A rejected operation after which every stored transport is closed and
\* peers is cleared.
OpRejectedClosingAll(s, p) ==
  /\ p \in 1..Len(pcs[s])
  /\ ~pcs[s][p].closed
  /\ pcs[s][p].chain # <<>>
  /\ \E r \in Outcomes(pcs[s][p], Head(pcs[s][p].chain)) : ~r.ok
  /\ pcs' = [pcs EXCEPT ![s] =
               [q \in 1..Len(@) |->
                  IF \E u \in Users : peers[s][u] = q THEN ClosePc(@[q]) ELSE @[q]]]
  /\ peers' = [peers EXCEPT ![s] = [u \in Users |-> 0]]
  /\ UNCHANGED <<phase, localStream, audioOn, videoOn, chan, tracked,
                 roster, cleaning, net>>

\* The operation at the head of transport p's chain is rejected: so is the
\* promise of the handler awaiting it, which nothing catches.
OpRejected(s, p) ==
  /\ p \in 1..Len(pcs[s])
  /\ ~pcs[s][p].closed
  /\ pcs[s][p].chain # <<>>
  /\ \E r \in Outcomes(pcs[s][p], Head(pcs[s][p].chain)) : ~r.ok
  /\ pcs' = [pcs EXCEPT ![s][p].chain = Tail(@)]
  /\ UNCHANGED <<phase, localStream, audioOn, videoOn, chan, tracked,
                 peers, roster, cleaning, net>>

\* onicecandidate: a transport with a local description gathers a candidate,
\* which is sent to the remote user.
IceCandidate(s, p) ==
  /\ p \in 1..Len(pcs[s])
  /\ ~pcs[s][p].closed
  /\ pcs[s][p].local # "none"
  /\ Send({Msg("ice-candidate", s, pcs[s][p].remote)})
  /\ UNCHANGED <<phase, localStream, audioOn, videoOn, chan, tracked,
                 peers, pcs, roster, cleaning>>

\* toggleVideo / toggleAudio: the enabled flag of the local tracks.
toggleVideo(s, enabled) ==
  /\ videoOn' = [videoOn EXCEPT ![s] = IF localStream[s] # "null" THEN enabled ELSE @]
  /\ UNCHANGED <<phase, localStream, audioOn, chan, tracked,
                 peers, pcs, roster, cleaning, net>>

\* toggleAudio that renegotiates every PeerLink after changing the flag.
toggleAudioRenegotiating(s, enabled) ==
  /\ audioOn' = [audioOn EXCEPT ![s] = IF localStream[s] # "null" THEN enabled ELSE @]
  /\ pcs' = [pcs EXCEPT ![s] =
               [p \in 1..Len(@) |->
                  IF \E u \in Users : peers[s][u] = p
                  THEN [@[p] EXCEPT !.chain =
                          Append(@, Op("createPeerConnection", "createOffer"))]
                  ELSE @[p]]]
  /\ UNCHANGED <<phase, localStream, videoOn, chan, tracked, peers, roster,
                 cleaning, net>>

toggleAudio(s, enabled) ==
  /\ audioOn' = [audioOn EXCEPT ![s] = IF localStream[s] # "null" THEN enabled ELSE @]
  /\ UNCHANGED <<phase, localStream, videoOn, chan, tracked,
                 peers, pcs, roster, cleaning, net>>

\* cleanup() up to its first await: the local tracks are stopped, every
\* transport in peers is closed, peers is cleared and untrack() is awaited.
\* Meeting calls it on the manager initialize() has returned.
cleanup(s) ==
  /\ phase[s] = "ready"
  /\ cleaning[s].untrack + cleaning[s].removeChannel < MaxCleanups
  /\ localStream' = [localStream EXCEPT ![s] = IF @ # "null" THEN "stopped" ELSE @]
  /\ pcs' = [pcs EXCEPT ![s] =
               [p \in 1..Len(@) |->
                  IF \E u \in Users : peers[s][u] = p THEN ClosePc(@[p]) ELSE @[p]]]
  /\ peers' = [peers EXCEPT ![s] = [u \in Users |-> 0]]
  /\ cleaning' = [cleaning EXCEPT ![s].untrack = @ + 1]
  /\ UNCHANGED <<phase, audioOn, videoOn, chan, tracked,
                 roster, net>>

\* untrack() resolves: the relay has dropped the presence; removeChannel()
\* is awaited.
UntrackDone(s) ==
  /\ cleaning[s].untrack > 0
  /\ cleaning' = [cleaning EXCEPT ![s].untrack = @ - 1,
                                  ![s].removeChannel = @ + 1]
  /\ tracked' = [tracked EXCEPT ![s] = "untracked"]
  /\ UNCHANGED <<phase, localStream, audioOn, videoOn, chan,
                 peers, pcs, roster, net>>

\* removeChannel() resolves: the channel is unsubscribed and delivers no
\* further event.
RemoveChannelDone(s) ==
  /\ cleaning[s].removeChannel > 0
  /\ cleaning' = [cleaning EXCEPT ![s].removeChannel = @ - 1]
  /\ chan' = [chan EXCEPT ![s] = "removed"]
  /\ UNCHANGED <<phase, localStream, audioOn, videoOn, tracked,
                 peers, pcs, roster, net>>

\* The variables the handlers neither read nor write: the relay's record of
\* what it has reported, the record of what cleanup() found suspended, and
\* the count of the onParticipantJoined calls; and the page's mounting,
\* which the manager does not see, with the state of the other pages.
observers == <<presenceState, suspended, reported, mounted, pages>>

\* cleanup() runs: the transports with a handler suspended on them are noted.
NoteSuspended(s) ==
  suspended' = [suspended EXCEPT ![s] =
                  {p \in 1..Len(pcs[s]) : pcs[s][p].chain # <<>>}]

(***************************************************************************)
(* Spec: the session of user A against any relay and any remote user.      *)
(* The presence events about A and C and the broadcasts of C, addressed to *)
(* A or to B, arrive in any order, any number of times.                    *)
(***************************************************************************)

Local == "A"
Remote == "C"

RemoteMessages ==
  {Msg(k, Remote, t) : k \in Kinds, t \in Users \ {Remote}}

Next ==
  \/ Initialize(Local) /\ UNCHANGED observers
  \/ MediaGranted(Local) /\ UNCHANGED observers
  \/ MediaDenied(Local) /\ UNCHANGED observers
  \/ \E state \in SUBSET {Local, Remote} :
       Subscribed(Local, state) /\ UNCHANGED observers
  \/ TrackDone(Local) /\ UNCHANGED observers
  \/ \E state \in SUBSET {Local, Remote} :
       PresenceSync(Local, state) /\ UNCHANGED observers
  \/ \E u \in {Local, Remote} : PresenceJoin(Local, u) /\ UNCHANGED observers
  \/ \E u \in {Local, Remote} : PresenceLeave(Local, u) /\ UNCHANGED observers
  \/ \E m \in RemoteMessages : RemoteBroadcast(Local, m) /\ UNCHANGED observers
  \/ \E p \in 1..MaxPc : OpFulfilled(Local, p) /\ UNCHANGED observers
  \/ \E p \in 1..MaxPc : OpRejected(Local, p) /\ UNCHANGED observers
  \/ \E p \in 1..MaxPc : IceCandidate(Local, p) /\ UNCHANGED observers
  \/ \E e \in BOOLEAN : toggleVideo(Local, e) /\ UNCHANGED observers
  \/ \E e \in BOOLEAN : toggleAudio(Local, e) /\ UNCHANGED observers
  \/ cleanup(Local) /\ NoteSuspended(Local)
       /\ UNCHANGED <<presenceState, reported, mounted, pages>>
  \/ UntrackDone(Local) /\ UNCHANGED observers
  \/ RemoveChannelDone(Local) /\ UNCHANGED observers

Spec == Init /\ [][Next]_vars

(***************************************************************************)
(* SpecAB: A joins the meeting first and B second, over a relay that loses *)
(* nothing and reports the presences it tracks: a snapshot of them when a  *)
(* channel is joined, a join event for each presence tracked later.        *)
(* Nobody leaves.                                                          *)
(***************************************************************************)

\* The presences the relay tracks.
Present == {u \in Sessions : tracked[u] = "yes"}

\* The sync handler of s runs on state: its onParticipantJoined calls are
\* counted.
NoteReported(s, state) ==
  /\ \A u \in SyncReports(s, state) : reported[s][u] < MaxReports
  /\ reported' = [reported EXCEPT ![s] =
                    [u \in Users |->
                       IF u \in SyncReports(s, state) THEN @[u] + 1 ELSE @[u]]]

\* The relay reports a presence the channel of s has not been told of.
RelayJoin(s, u) ==
  /\ u \in Present \ presenceState[s]
  /\ PresenceJoin(s, u)
  /\ presenceState' = [presenceState EXCEPT ![s] = @ \cup {u}]
  /\ UNCHANGED <<suspended, reported, mounted, pages>>

\* The channel of s is joined and receives the snapshot of the presences.
RelaySubscribed(s) ==
  /\ Subscribed(s, Present)
  /\ NoteReported(s, Present)
  /\ presenceState' = [presenceState EXCEPT ![s] = Present]
  /\ UNCHANGED <<suspended, mounted, pages>>

\* The relay sends the presence state again: a sync event follows every
\* change of the presences.
RelaySync(s) ==
  /\ PresenceSync(s, presenceState[s])
  /\ NoteReported(s, presenceState[s])
  /\ UNCHANGED <<presenceState, suspended, mounted, pages>>

NextAB ==
  \/ Initialize("A") /\ UNCHANGED observers
  \/ tracked["A"] = "yes" /\ Initialize("B") /\ UNCHANGED observers
  \/ \E s \in Sessions : MediaGranted(s) /\ UNCHANGED observers
  \/ \E s \in Sessions : RelaySubscribed(s)
  \/ \E s \in Sessions : TrackDone(s) /\ UNCHANGED observers
  \/ \E s \in Sessions : RelaySync(s)
  \/ \E s \in Sessions, u \in Sessions : RelayJoin(s, u)
  \/ \E s \in Sessions, m \in Messages : Deliver(s, m) /\ UNCHANGED observers
  \/ \E s \in Sessions, p \in 1..MaxPc : OpFulfilled(s, p) /\ UNCHANGED observers
  \/ \E s \in Sessions, p \in 1..MaxPc : OpRejected(s, p) /\ UNCHANGED observers
  \/ \E s \in Sessions, p \in 1..MaxPc : IceCandidate(s, p) /\ UNCHANGED observers

\* The event loop runs every task it has queued, and the relay delivers
\* every event and every message it holds.
FairAB ==
  /\ WF_vars(Initialize("A") /\ UNCHANGED observers)
  /\ WF_vars(tracked["A"] = "yes" /\ Initialize("B") /\ UNCHANGED observers)
  /\ \A s \in Sessions : WF_vars(MediaGranted(s) /\ UNCHANGED observers)
  /\ \A s \in Sessions : WF_vars(RelaySubscribed(s))
  /\ \A s \in Sessions : WF_vars(TrackDone(s) /\ UNCHANGED observers)
  /\ \A s \in Sessions, u \in Sessions : SF_vars(RelayJoin(s, u))
  /\ \A s \in Sessions : \A m \in {x \in Messages : x.from # s /\ x.to = s} :
       SF_vars(Deliver(s, m) /\ UNCHANGED observers)
  /\ \A s \in Sessions, p \in 1..MaxPc :
       /\ WF_vars(OpFulfilled(s, p) /\ UNCHANGED observers)
       /\ WF_vars(OpRejected(s, p) /\ UNCHANGED observers)

SpecAB == Init /\ [][NextAB]_vars /\ FairAB

(***************************************************************************)
(* SpecPair: A and B join the meeting in any order, also at the same time, *)
(* over the relay of SpecAB.                                               *)
(***************************************************************************)

NextPair ==
  \/ \E s \in Sessions : Initialize(s) /\ UNCHANGED observers
  \/ \E s \in Sessions : MediaGranted(s) /\ UNCHANGED observers
  \/ \E s \in Sessions : RelaySubscribed(s)
  \/ \E s \in Sessions : TrackDone(s) /\ UNCHANGED observers
  \/ \E s \in Sessions, u \in Sessions : RelayJoin(s, u)
  \/ \E s \in Sessions, m \in Messages : Deliver(s, m) /\ UNCHANGED observers
  \/ \E s \in Sessions, p \in 1..MaxPc : OpFulfilled(s, p) /\ UNCHANGED observers
  \/ \E s \in Sessions, p \in 1..MaxPc : OpRejected(s, p) /\ UNCHANGED observers

SpecPair == Init /\ [][NextPair]_vars

(***************************************************************************)
(* SpecMeeting: the session as the Meeting page drives it.  The page calls *)
(* initialize() once while mounted, and cleanup() from handleEndCall and   *)
(* from its unmount effect, each time on the manager it has stored, which  *)
(* it stores when initialize() has returned.                               *)
(***************************************************************************)

\* initializeWebRTC: the effect runs on the mounted page.
InitializeWebRTC(s) == mounted[s] /\ Initialize(s) /\ UNCHANGED observers

\* handleEndCall: cleanup() is called on the stored manager.
HandleEndCall(s) ==
  /\ mounted[s]
  /\ cleanup(s)
  /\ NoteSuspended(s)
  /\ UNCHANGED <<presenceState, reported, mounted, pages>>

\* The page is unmounted: the effect's cleanup function calls cleanup() on
\* the stored manager, and does nothing when none is stored yet.
Unmount(s) ==
  /\ mounted[s]
  /\ mounted' = [mounted EXCEPT ![s] = FALSE]
  /\ \/ cleanup(s) /\ NoteSuspended(s)
     \/ /\ phase[s] # "ready"
        /\ UNCHANGED <<phase, localStream, audioOn, videoOn, chan, tracked,
                       peers, pcs, roster, cleaning, net, suspended>>
  /\ UNCHANGED <<presenceState, reported, pages>>

NextMeeting ==
  \/ InitializeWebRTC(Local)
  \/ MediaGranted(Local) /\ UNCHANGED observers
  \/ MediaDenied(Local) /\ UNCHANGED observers
  \/ \E state \in SUBSET {Local, Remote} :
       Subscribed(Local, state) /\ UNCHANGED observers
  \/ TrackDone(Local) /\ UNCHANGED observers
  \/ PresenceJoin(Local, Remote) /\ UNCHANGED observers
  \/ \E p \in 1..MaxPc : OpFulfilled(Local, p) /\ UNCHANGED observers
  \/ HandleEndCall(Local)
  \/ Unmount(Local)
  \/ UntrackDone(Local) /\ UNCHANGED observers
  \/ RemoveChannelDone(Local) /\ UNCHANGED observers

SpecMeeting == Init /\ [][NextMeeting]_vars

(***************************************************************************)
(* SpecPresence: the session of A against a relay whose presence reports   *)
(* are recorded.  B and C come and go; the relay reports a change with a   *)
(* join or a leave event, or, after an outage, only with the snapshot of   *)
(* its next sync.                                                          *)
(***************************************************************************)

Others == Users \ {Local}

\* The channel is joined and the first snapshot arrives.
RelayFirstSync(s, state) ==
  /\ Subscribed(s, state)
  /\ presenceState' = [presenceState EXCEPT ![s] = state]
  /\ UNCHANGED <<suspended, reported, mounted, pages>>

\* A sync event with the snapshot state.
RelayResync(s, state) ==
  /\ PresenceSync(s, state)
  /\ presenceState' = [presenceState EXCEPT ![s] = state]
  /\ UNCHANGED <<suspended, reported, mounted, pages>>

\* A join event for a user the relay has not reported present.
RelayJoined(s, u) ==
  /\ u \notin presenceState[s]
  /\ PresenceJoin(s, u)
  /\ presenceState' = [presenceState EXCEPT ![s] = @ \cup {u}]
  /\ UNCHANGED <<suspended, reported, mounted, pages>>

\* A leave event for a user the relay has reported present.
RelayLeft(s, u) ==
  /\ u \in presenceState[s]
  /\ PresenceLeave(s, u)
  /\ presenceState' = [presenceState EXCEPT ![s] = @ \ {u}]
  /\ UNCHANGED <<suspended, reported, mounted, pages>>

NextPresence ==
  \/ Initialize(Local) /\ UNCHANGED observers
  \/ MediaGranted(Local) /\ UNCHANGED observers
  \/ \E state \in SUBSET Others : RelayFirstSync(Local, state)
  \/ TrackDone(Local) /\ UNCHANGED observers
  \/ \E state \in SUBSET Users : RelayResync(Local, state)
  \/ \E u \in Users : RelayJoined(Local, u)
  \/ \E u \in Users : RelayLeft(Local, u)
  \/ \E p \in 1..MaxPc : OpFulfilled(Local, p) /\ UNCHANGED observers

SpecPresence == Init /\ [][NextPresence]_vars

(***************************************************************************)
(* SpecLinks: the session of A with two remote users, B and C, whose       *)
(* sessions are not modelled.  Their presence events and their broadcasts  *)
(* to A arrive in any order, any number of times; the messages A sends to  *)
(* B stay on the relay.                                                    *)
(***************************************************************************)

OthersMessages == {Msg(k, f, Local) : k \in Kinds, f \in Others}

NextLinks ==
  \/ Initialize(Local) /\ UNCHANGED observers
  \/ MediaGranted(Local) /\ UNCHANGED observers
  \/ \E state \in SUBSET Others :
       Subscribed(Local, state) /\ UNCHANGED observers
  \/ TrackDone(Local) /\ UNCHANGED observers
  \/ \E state \in SUBSET Others :
       PresenceSync(Local, state) /\ UNCHANGED observers
  \/ \E u \in Others : PresenceJoin(Local, u) /\ UNCHANGED observers
  \/ \E u \in Others : PresenceLeave(Local, u) /\ UNCHANGED observers
  \/ \E m \in OthersMessages : RemoteBroadcast(Local, m) /\ UNCHANGED observers
  \/ \E p \in 1..MaxPc : OpFulfilled(Local, p) /\ UNCHANGED observers
  \/ \E p \in 1..MaxPc : OpRejected(Local, p) /\ UNCHANGED observers

SpecLinks == Init /\ [][NextLinks]_vars

(***************************************************************************)
(* SpecLate: the session of A against a relay that reports every change of *)
(* the presences of B and C with a join or a leave event, and delivers     *)
(* their broadcasts to A at any time, also after they have left.           *)
(***************************************************************************)

NextLate ==
  \/ Initialize(Local) /\ UNCHANGED observers
  \/ MediaGranted(Local) /\ UNCHANGED observers
  \/ \E state \in SUBSET Others : RelayFirstSync(Local, state)
  \/ TrackDone(Local) /\ UNCHANGED observers
  \/ \E u \in Others : RelayJoined(Local, u)
  \/ \E u \in Others : RelayLeft(Local, u)
  \/ \E m \in OthersMessages : RemoteBroadcast(Local, m) /\ UNCHANGED observers
  \/ \E p \in 1..MaxPc : OpFulfilled(Local, p) /\ UNCHANGED observers
  \/ \E p \in 1..MaxPc : OpRejected(Local, p) /\ UNCHANGED observers

SpecLate == Init /\ [][NextLate]_vars

(***************************************************************************)
(* SpecChat: the message list of one mounted MeetingChat.  Rows are        *)
(* inserted into chat_messages at any time; their ids are numbered in the  *)
(* order of created_at.                                                    *)
(***************************************************************************)

\* The session variables, which MeetingChat and Auth leave alone.
session == <<phase, localStream, audioOn, videoOn, chan, tracked,
             presenceState, peers, pcs, roster, cleaning, net, suspended,
             reported, mounted>>

auth == <<authUsers, profiles, signup>>

chat == <<chat_messages, messages, loadPos, data, subscribed, notifications>>

\* The rows of a select ordered by created_at ascending.
RECURSIVE Ascending(_)
Ascending(S) ==
  IF S = {} THEN <<>>
  ELSE LET x == CHOOSE x \in S : \A y \in S : x <= y
       IN <<x>> \o Ascending(S \ {x})

\* The ids in the messages state.
Displayed == {messages[i] : i \in 1..Len(messages)}

\* The effect of MeetingChat runs: loadMessages() is called and awaits its
\* select; the channel is created and subscribe() is called.
loadMessages ==
  /\ loadPos = "idle"
  /\ loadPos' = "query"
  /\ UNCHANGED <<chat_messages, messages, data, subscribed, notifications>>

\* The relay has joined the channel: the INSERTs from now on are notified.
ChatSubscribed ==
  /\ loadPos # "idle"
  /\ ~subscribed
  /\ subscribed' = TRUE
  /\ UNCHANGED <<chat_messages, messages, loadPos, data, notifications>>

\* A participant's handleSendMessage inserts a row; a subscribed channel is
\* sent the INSERT, and its handler awaits the sender's profile.
handleSendMessage ==
  /\ Cardinality(chat_messages) < MaxMsgs
  /\ LET id == Cardinality(chat_messages) + 1
     IN /\ chat_messages' = chat_messages \cup {id}
        /\ notifications' = IF subscribed THEN notifications \cup {id}
                                         ELSE notifications
  /\ UNCHANGED <<messages, loadPos, data, subscribed>>

\* The select of loadMessages() is executed on the table as it is; the
\* select of the senders' profiles is awaited.
LoadQueried ==
  /\ loadPos = "query"
  /\ data' = chat_messages
  /\ loadPos' = "profiles"
  /\ UNCHANGED <<chat_messages, messages, subscribed, notifications>>

\* The select of loadMessages() fails: the error is logged.
LoadFailed ==
  /\ loadPos = "query"
  /\ loadPos' = "done"
  /\ UNCHANGED <<chat_messages, messages, data, subscribed, notifications>>

\* The profiles select resolves: setMessages(data.map(...)).
LoadApplied ==
  /\ loadPos = "profiles"
  /\ messages' = Ascending(data)
  /\ loadPos' = "done"
  /\ UNCHANGED <<chat_messages, data, subscribed, notifications>>

\* The INSERT handler's profile select resolves: the message is appended
\* unless its id is in the list.
NotificationApplied(id) ==
  /\ id \in notifications
  /\ messages' = IF id \in Displayed THEN messages ELSE Append(messages, id)
  /\ notifications' = notifications \ {id}
  /\ UNCHANGED <<chat_messages, loadPos, data, subscribed>>

NextChat ==
  \/ loadMessages /\ UNCHANGED <<session, auth>>
  \/ ChatSubscribed /\ UNCHANGED <<session, auth>>
  \/ handleSendMessage /\ UNCHANGED <<session, auth>>
  \/ LoadQueried /\ UNCHANGED <<session, auth>>
  \/ LoadFailed /\ UNCHANGED <<session, auth>>
  \/ LoadApplied /\ UNCHANGED <<session, auth>>
  \/ \E id \in 1..MaxMsgs : NotificationApplied(id) /\ UNCHANGED <<session, auth>>

SpecChat == Init /\ [][NextChat]_vars

(***************************************************************************)
(* SpecAuth: the Auth page signing users up, one handleSignup() at a time, *)
(* against auth.users and public.profiles with the on_auth_user_created    *)
(* trigger.  The id of a user is modelled by the user's email.             *)
(***************************************************************************)

Emails == {"e1", "e2"}
RegisterNumbers == {"r1", "r2"}
PhoneNumbers == {"p1", "p2"}

\* A row of public.profiles; "null" is NULL.
Profile(id, registerNumber, phoneNumber) ==
  [id |-> id, register_number |-> registerNumber, phone_number |-> phoneNumber]

\* handle_new_user(), run by the trigger on_auth_user_created.
handle_new_user(id) == Profile(id, "null", "null")

\* handleSignup() is called with the form values: an invalid form is
\* reported, a valid one awaits the select by register_number.
handleSignup(valid, email, registerNumber, phoneNumber) ==
  /\ signup.pos \in {"idle", "created", "error"}
  /\ signup' = [pos |-> IF valid THEN "existingReg" ELSE "error",
                email |-> email, registerNumber |-> registerNumber,
                phoneNumber |-> phoneNumber, user |-> "none"]
  /\ UNCHANGED <<authUsers, profiles>>

\* The select by register_number resolves.
ExistingRegChecked ==
  /\ signup.pos = "existingReg"
  /\ signup' = [signup EXCEPT !.pos =
                  IF \E r \in profiles : r.register_number = signup.registerNumber
                  THEN "error" ELSE "existingPhone"]
  /\ UNCHANGED <<authUsers, profiles>>

\* The select by phone_number resolves.
ExistingPhoneChecked ==
  /\ signup.pos = "existingPhone"
  /\ signup' = [signup EXCEPT !.pos =
                  IF \E r \in profiles : r.phone_number = signup.phoneNumber
                  THEN "error" ELSE "signUp"]
  /\ UNCHANGED <<authUsers, profiles>>

\* auth.signUp() resolves: for a new email the row of auth.users is
\* inserted, the trigger inserts the profile row, and the user is returned;
\* for a registered email an error is returned.
SignedUp ==
  /\ signup.pos = "signUp"
  /\ IF signup.email \in authUsers
     THEN /\ signup' = [signup EXCEPT !.pos = "error"]
          /\ UNCHANGED <<authUsers, profiles>>
     ELSE /\ authUsers' = authUsers \cup {signup.email}
          /\ profiles' = profiles \cup {handle_new_user(signup.email)}
          /\ signup' = [signup EXCEPT !.pos = "insert", !.user = signup.email]

\* The insert into profiles resolves: the row is rejected if its id, its
\* register_number or its phone_number is taken, and the error is logged;
\* "Account created!" is shown either way.
ProfileInserted ==
  /\ signup.pos = "insert"
  /\ LET row == Profile(signup.user, signup.registerNumber, signup.phoneNumber)
         insertError == \E r \in profiles :
                          \/ r.id = row.id
                          \/ r.register_number = row.register_number
                          \/ r.phone_number = row.phone_number
     IN profiles' = IF insertError THEN profiles ELSE profiles \cup {row}
  /\ signup' = [signup EXCEPT !.pos = "created"]
  /\ UNCHANGED authUsers

NextAuth ==
  \/ \E valid \in BOOLEAN, e \in Emails, r \in RegisterNumbers, n \in PhoneNumbers :
       handleSignup(valid, e, r, n) /\ UNCHANGED <<session, chat>>
  \/ ExistingRegChecked /\ UNCHANGED <<session, chat>>
  \/ ExistingPhoneChecked /\ UNCHANGED <<session, chat>>
  \/ SignedUp /\ UNCHANGED <<session, chat>>
  \/ ProfileInserted /\ UNCHANGED <<session, chat>>

SpecAuth == Init /\ [][NextAuth]_vars

(***************************************************************************)
(* The claims.                                                             *)
(***************************************************************************)

\* The transports of s for user u that are not closed.
OpenTransports(s, u) ==
  {p \in 1..Len(pcs[s]) : pcs[s][p].remote = u /\ ~pcs[s][p].closed}

\* The users in the participants map of s.
Roster(s) == {u \in Users : roster[s][u] # "absent"}

\* The PeerLink of s to u is Stable.
Stable(s, u) ==
  /\ peers[s][u] # 0
  /\ LinkState(pcs[s][peers[s][u]]) = "Stable"
  /\ pcs[s][peers[s][u]].local # "none"
  /\ pcs[s][peers[s][u]].rdesc # "none"

\* The transports whose offer has been sent.
Offering == {x \in Sessions \X (1..MaxPc) :
               x[2] <= Len(pcs[x[1]]) /\ pcs[x[1]][x[2]].offered}

\* C1: in every reachable state a session holds at most one transport that
\* is not closed for each remote user.
C1_OneOpenTransportPerUser ==
  \A s \in Sessions, u \in Users : Cardinality(OpenTransports(s, u)) <= 1

\* C2: after every prefix of presence events the participants map of a
\* session holds exactly the remote users the relay has reported present,
\* and never the local user.
C2_RosterIsPresence ==
  \A s \in Sessions : Roster(s) = presenceState[s] \ {s}

\* C11: while the relay reports a remote user present, onParticipantJoined
\* has been called for that user exactly once, whether the user was seen in
\* a sync snapshot or in a join event.
C11_DiscoveredExactlyOnce ==
  \A s \in Sessions : \A u \in presenceState[s] \ {s} : reported[s][u] = 1

\* C12: onParticipantLeft is called for a user only while the participants
\* map, which onParticipantJoined fills and onParticipantLeft empties, holds
\* that user.
C12_LeftOnlyAfterJoined ==
  [][\A u \in Users :
       PresenceLeave(Local, u) => roster[Local][u] # "absent"]_vars

\* No cleanup() of s is suspended at an await.
NotCleaning(s) == cleaning[s].untrack = 0 /\ cleaning[s].removeChannel = 0

\* C13: once cleanup() has completed, peers is empty, every transport the
\* session created is closed, the local tracks are stopped, the presence is
\* not tracked and the channel is removed.
C13_CleanupLeavesNothing ==
  (chan[Local] = "removed" /\ NotCleaning(Local)) =>
    /\ \A u \in Users : peers[Local][u] = 0
    /\ \A p \in 1..Len(pcs[Local]) : pcs[Local][p].closed
    /\ localStream[Local] # "live"
    /\ tracked[Local] \notin {"pending", "yes"}

\* C14: a cleanup() called after one has completed, and each of its
\* continuations, changes nothing of the session.
C14_SecondCleanupChangesNothing ==
  [][(/\ chan[Local] = "removed"
      /\ cleanup(Local) \/ UntrackDone(Local) \/ RemoveChannelDone(Local))
     => UNCHANGED <<phase, localStream, audioOn, videoOn, chan, tracked,
                    peers, pcs, roster, net>>]_vars

\* C15: once the page is unmounted, initialize() has finished and no
\* cleanup() is running, the session holds no live local track, has no
\* channel subscription and tracks no presence.
C15_NothingLeftAfterUnmount ==
  (/\ ~mounted[Local]
   /\ phase[Local] \in {"ready", "failed"}
   /\ NotCleaning(Local))
  => /\ localStream[Local] # "live"
     /\ chan[Local] \notin {"joining", "joined"}
     /\ tracked[Local] \notin {"pending", "yes"}

\* C16: when getUserMedia() has failed, initialize() has rejected and the
\* session has no stream, no channel, no tracked presence, no transport and
\* has sent no message.
C16_MediaFailureStopsJoin ==
  phase[Local] = "failed" =>
    /\ localStream[Local] = "null"
    /\ chan[Local] = "none"
    /\ tracked[Local] = "no"
    /\ pcs[Local] = <<>>
    /\ \A u \in Users : peers[Local][u] = 0
    /\ \A m \in net : m.from # Local

\* C16 witness: getUserMedia() has failed.
C16_Witness == phase[Local] = "failed" /\ chan[Local] = "none"

\* C17: after a sync snapshot is processed, neither the participants map nor
\* peers holds a user who is absent from the snapshot.
C17_SyncReconciles ==
  [][\A state \in SUBSET Users :
       RelayResync(Local, state) =>
         \A u \in Users \ state :
           roster'[Local][u] = "absent" /\ peers'[Local][u] = 0]_vars

\* The transport stored for u is open, was created as initiator and has
\* createOffer() as its first operation.
InitiatesTo(s, u, ps, cs) ==
  /\ ps[u] # 0
  /\ cs[ps[u]].init
  /\ ~cs[ps[u]].closed
  /\ cs[ps[u]].chain = <<Op("createPeerConnection", "createOffer")>>

C19_OneInitiatorPerPair ==
  /\ ~(\E p \in 1..Len(pcs["A"]), q \in 1..Len(pcs["B"]) :
         /\ pcs["A"][p].init /\ pcs["A"][p].remote = "B"
         /\ pcs["B"][q].init /\ pcs["B"][q].remote = "A")
  /\ ~(\E x, y \in Offering : x[1] = "A" /\ y[1] = "B")

\* C20: the negotiation state of every PeerLink changes only along
\* New -> HaveLocalOffer -> Stable or New -> HaveRemoteOffer -> Stable and
\* from any of them to Closed: an offer is applied only to a link in New and
\* an answer only to a link in HaveLocalOffer.
C20_LinkStateMachine ==
  [][\A s \in Sessions : \A p \in 1..Len(pcs[s]) :
       \/ LinkState(pcs'[s][p]) = LinkState(pcs[s][p])
       \/ <<LinkState(pcs[s][p]), LinkState(pcs'[s][p])>> \in
            {<<"New", "HaveLocalOffer">>, <<"New", "HaveRemoteOffer">>,
             <<"HaveLocalOffer", "Stable">>, <<"HaveRemoteOffer", "Stable">>,
             <<"New", "Closed">>, <<"HaveLocalOffer", "Closed">>,
             <<"HaveRemoteOffer", "Closed">>, <<"Stable", "Closed">>}]_vars

\* C21: a leave event for a user closes the transport stored for that user,
\* removes its entry from peers and calls onParticipantLeft; every other
\* transport and entry of peers, the local tracks, the channel and the
\* tracked presence stay as they are.
C21_LeaveTouchesOneLink ==
  [][\A u \in Users :
       PresenceLeave(Local, u) =>
         LET p == peers[Local][u]
         IN /\ p # 0 => pcs'[Local][p] = ClosePc(pcs[Local][p])
            /\ peers'[Local][u] = 0
            /\ roster'[Local][u] = "absent"
            /\ \A v \in Users \ {u} : peers'[Local][v] = peers[Local][v]
            /\ Len(pcs'[Local]) = Len(pcs[Local])
            /\ \A q \in 1..Len(pcs[Local]) :
                 q # p => pcs'[Local][q] = pcs[Local][q]
            /\ UNCHANGED <<localStream, audioOn, videoOn, chan, tracked>>]_vars

\* C21 witness: the link of one user was closed and removed by a leave event
\* while the link of another user is stored and open.
C21_Witness ==
  \E u, v \in Others :
    /\ u # v
    /\ peers[Local][u] = 0
    /\ roster[Local][u] = "absent"
    /\ \E p \in 1..Len(pcs[Local]) :
         pcs[Local][p].remote = u /\ pcs[Local][p].closed
    /\ peers[Local][v] # 0
    /\ ~pcs[Local][peers[Local][v]].closed
    /\ localStream[Local] = "live"
    /\ Listening(Local)

\* C22: removePeer for a user without an entry in peers, as on a duplicated
\* leave event, changes no transport, no entry of peers and nothing else of
\* the manager.
C22_SecondRemoveIsNoOp ==
  [][\A u \in Users :
       (peers[Local][u] = 0 /\ PresenceLeave(Local, u)) =>
         UNCHANGED <<pcs, peers, localStream, audioOn, videoOn, chan,
                     tracked, net>>]_vars

\* C22 witness: the link of a user was closed and removed, the session is
\* listening for a second leave event, and it still holds an open transport
\* created for that user which a second removal could reach.
C22_Witness ==
  \E u \in Users :
    /\ Listening(Local)
    /\ peers[Local][u] = 0
    /\ \E p, q \in 1..Len(pcs[Local]) :
         /\ pcs[Local][p].remote = u /\ pcs[Local][p].closed
         /\ pcs[Local][q].remote = u /\ ~pcs[Local][q].closed

\* C23: when an operation on a link is rejected, the UI is told about that
\* participant: one of the callbacks, which are all the manager has to reach
\* the UI, changes the participant's entry.
C23_FailureReported ==
  [][\A p \in 1..Len(pcs[Local]) :
       OpRejected(Local, p) =>
         roster'[Local][pcs[Local][p].remote] #
           roster[Local][pcs[Local][p].remote]]_vars

\* C24: a rejected operation on the link of one user leaves every other
\* transport, peers, the participants map and the local tracks unchanged.
C24_FailureStaysOnItsLink ==
  [][\A p \in 1..Len(pcs[Local]) :
       OpRejected(Local, p) =>
         /\ Len(pcs'[Local]) = Len(pcs[Local])
         /\ \A q \in 1..Len(pcs[Local]) :
              q # p => pcs'[Local][q] = pcs[Local][q]
         /\ UNCHANGED <<peers, roster, localStream, audioOn, videoOn>>]_vars

\* C24 witness: an operation on the link of one user is about to be
\* rejected while the link of another user is stored, open and reported.
C24_Witness ==
  \E u, v \in Others :
    /\ u # v
    /\ peers[Local][u] # 0
    /\ LET pc == pcs[Local][peers[Local][u]]
       IN /\ pc.chain # <<>>
          /\ \E r \in Outcomes(pc, Head(pc.chain)) : ~r.ok
    /\ peers[Local][v] # 0
    /\ ~pcs[Local][peers[Local][v]].closed
    /\ roster[Local][v] # "absent"

\* C25: a handler sends an offer only when the transport has that offer as
\* its local description, and an answer only when it has the answer as its
\* local description; createAnswer() resolves only on a transport that has
\* the received offer as its remote description.
C25_SentAfterApplied ==
  [][\A p \in 1..Len(pcs[Local]) :
       OpFulfilled(Local, p) =>
         LET pc == pcs[Local][p]
             o == Head(pc.chain)
         IN /\ \A m \in Continue(Local, pc, o).send :
                 /\ m.kind \in {"offer", "answer"}
                 /\ pcs'[Local][p].local = m.kind
                 /\ m.kind = "answer" => pcs'[Local][p].rdesc = "offer"
            /\ o = Op("handleOffer", "createAnswer") =>
                 pc.rdesc = "offer" /\ pc.sig = "have-remote-offer"
            /\ \A m \in net' \ net :
                 m \in Continue(Local, pc, o).send]_vars

\* C25 witness: the session has sent an offer on one link and an answer to
\* B on another.
C25_Witness ==
  /\ Msg("answer", Local, "B") \in net
  /\ \E p \in 1..Len(pcs[Local]) :
       pcs[Local][p].offered /\ pcs[Local][p].local = "offer"
  /\ \E q \in 1..Len(pcs[Local]) :
       pcs[Local][q].remote = "B" /\ pcs[Local][q].local = "answer"

\* C26: every user with an entry in peers has an entry in the participants
\* map.
C26_PeersAreInRoster ==
  \A s \in Sessions : \A u \in Users :
    peers[s][u] # 0 => roster[s][u] # "absent"

\* C27: a leave event closes the transport stored for the user together
\* with the handlers suspended on it, and a closed transport never changes
\* again: its handlers resume at no await and send no offer and no answer.
C27_NothingSentAfterLeave ==
  [][/\ \A u \in Users :
          (peers[Local][u] # 0 /\ PresenceLeave(Local, u)) =>
            /\ pcs'[Local][peers[Local][u]].closed
            /\ pcs'[Local][peers[Local][u]].chain = <<>>
            /\ net' = net
     /\ \A p \in 1..Len(pcs[Local]) :
          pcs[Local][p].closed =>
            /\ pcs'[Local][p] = pcs[Local][p]
            /\ \A m \in net' \ net :
                 \E q \in 1..Len(pcs[Local]) :
                   /\ ~pcs[Local][q].closed
                   /\ pcs[Local][q].remote = m.to
                   /\ OpFulfilled(Local, q)]_vars

\* C27 witness: a leave event closed one link while createPeerConnection
\* was suspended before its offer was sent, and another while handleOffer
\* was suspended before its answer was applied.
C27_Witness ==
  \E p, q \in 1..Len(pcs[Local]) :
    /\ pcs[Local][p].closed /\ pcs[Local][p].init
    /\ pcs[Local][p].local = "none" /\ ~pcs[Local][p].offered
    /\ peers[Local][pcs[Local][p].remote] = 0
    /\ pcs[Local][q].closed /\ ~pcs[Local][q].init
    /\ pcs[Local][q].sig = "have-remote-offer"
    /\ peers[Local][pcs[Local][q].remote] = 0

\* C28: a user whose link a leave event has closed, and whom the relay has
\* not reported present again, has no entry in peers, whatever broadcast of
\* that user has arrived since.
C28_NoLinkAfterLeave ==
  \A u \in Others :
    (/\ u \notin presenceState[Local]
     /\ \E p \in 1..Len(pcs[Local]) :
          pcs[Local][p].remote = u /\ pcs[Local][p].closed)
    => peers[Local][u] = 0

\* C29: the messages state never holds an id twice, and applying the result
\* of the initial load removes no message a notification has added.
C29_NotificationSurvivesLoad ==
  [][/\ Cardinality(Displayed') = Len(messages')
     /\ LoadApplied => Displayed \subseteq Displayed']_vars

\* C30: when handleSignup has reported "Account created!" for a user whose
\* profile row the trigger inserted, public.profiles holds a row of that
\* user with the register number and the phone number entered.
C30_CreatedProfileHasNumbers ==
  (signup.pos = "created" /\ signup.user \in authUsers) =>
    \E r \in profiles :
      /\ r.id = signup.user
      /\ r.register_number = signup.registerNumber
      /\ r.phone_number = signup.phoneNumber

\* C3: a session that receives a broadcast whose payload.to is another user
\* changes no state and sends nothing.
C3_OnlyAddresseeHandles ==
  [][\A m \in RemoteMessages :
       (m.to # Local /\ RemoteBroadcast(Local, m)) => UNCHANGED vars]_vars

\* C3 witness: the session has handled an offer addressed to it (it holds a
\* transport created as responder) and is listening, so that the broadcasts
\* addressed to B reach it.
C3_Witness ==
  /\ Listening(Local)
  /\ \E p \in 1..Len(pcs[Local]) :
       pcs[Local][p].remote = Remote /\ ~pcs[Local][p].init

\* C4: a candidate handed to a link is never rejected: one that arrives
\* before the link's remote description is kept until the description is set.
C4_NoCandidateRejected ==
  [][\A p \in 1..Len(pcs[Local]) :
       OpRejected(Local, p) =>
         Head(pcs[Local][p].chain).fn # "handleIceCandidate"]_vars

\* C5: a handler that was suspended on a transport when cleanup() ran leaves
\* that transport as it is from then on.
C5_StaleCallbacksInert ==
  [][\A p \in suspended[Local] : pcs'[Local][p] = pcs[Local][p]]_vars

C7_BothReachStable == <>(Stable("A", "B") /\ Stable("B", "A"))

\* C7 witness: both links are Stable.
C7_Witness == Stable("A", "B") /\ Stable("B", "A")

\* C8: in the scenario, once A's link to B has a remote description (its
\* tracks have been handed to onStreamAdded), A's participants map holds B
\* with the stream.
C8_StreamAttachedAtA ==
  (peers["A"]["B"] # 0 /\ pcs["A"][peers["A"]["B"]].rdesc # "none")
    => roster["A"]["B"] = "stream"

C10_TogglesAreLocal ==
  [][\A e \in BOOLEAN :
       (toggleAudio(Local, e) \/ toggleVideo(Local, e))
         => UNCHANGED <<net, peers, pcs>>]_vars

\* C10 witness: audio and video are off while a link is being negotiated.
C10_Witness ==
  /\ ~audioOn[Local]
  /\ ~videoOn[Local]
  /\ \E u \in Users :
       /\ peers[Local][u] # 0
       /\ LinkState(pcs[Local][peers[Local][u]]) = "HaveLocalOffer"

====
